---- MODULE Spec2Model ----
(***************************************************************************)
(* Chunk addressing of entwine: ChunkInfo and Structure                    *)
(* (src/entwine/types/structure.cpp).                                      *)
(*                                                                         *)
(* A Structure is built once from its constructor parameters and is then   *)
(* only read.  The state is the constructed Structure (or the failure of   *)
(* its construction) and the last query made on it with its result.        *)
(*                                                                         *)
(* Id is an unsigned big integer: a subtraction whose result would be      *)
(* negative and a division by zero have no value.  Every query result      *)
(* carries a field "fault" that records the first such step.               *)
(* m_nominalChunkIndex and m_maxChunksPerDepth are read by none of the     *)
(* operations of structure.cpp and are not part of the state.              *)
(***************************************************************************)
EXTENDS Integers, FiniteSets, Sequences, TLC

VARIABLES
    state,      \* "unbuilt", "built" or "failed" (the constructor threw)
    params,     \* the arguments of the constructor call
    structure,  \* the members of the Structure ("built"), else NoStructure
    op,         \* the last operation
    arg,        \* its argument (index, chunk number or depth)
    from,       \* getInfoFromNum: the index whose ChunkInfo gave the chunk number, or -1
    info,       \* the ChunkInfo it returned
    count,      \* the count numChunksAtDepth returned
    json,       \* the document toJson returned
    restored    \* the outcome of Structure(json)

vars == <<state, params, structure, op, arg, from, info, count, json, restored>>

(***************************************************************************)
(* Bounds of the model.                                                    *)
(***************************************************************************)
\* Indices 0..MaxLow are queried on every Structure (below the cold region).
MaxLow == 2
\* Indices are also queried in windows [b - Back, b + Span] around the
\* boundaries b of a Structure: coldIndexBegin and the level indices of
\* sparseDepthBegin, sparseDepthBegin + 1 and sparseDepthBegin + 2.
Back == 2
Span == 70
\* Chunk numbers 0..MaxChunkNum are passed to getInfoFromNum directly.
MaxChunkNum == 3
\* Depths 0..MaxDepth are passed to numChunksAtDepth.
MaxDepth == 8
\* Monotonicity compares an index with the next MaxGap indices.
MaxGap == 3
\* log2(0) is undefined (std::log2(0) = -inf converted to size_t): the
\* nominal chunk depth of a Structure with pointsPerChunk = 0 is any value
\* in 0..LogZeroMax.
LogZeroMax == 1
\* Chunks of a depth are counted one by one only for depths of at most
\* MaxLevelPoints nodes.
MaxLevelPoints == 4096
\* Exponents tried when deciding independently whether a number is a power.
MaxPow == 8

Max(a, b) == IF a >= b THEN a ELSE b

(***************************************************************************)
(* Pure functions of ChunkInfo.                                            *)
(***************************************************************************)
RECURSIVE log2(_)
\* std::size_t log2(std::size_t val) { return std::log2(val); }  The double
\* is truncated: the floor of the binary logarithm.  std::log2 is exact
\* enough for that while val < 2^40; next to larger powers of two it may
\* round up to the next integer, and an Id above 2^64 does not fit val.
\* log2(0) is undefined; its only use, logN(0, n), is modelled in MemberInit.
log2(val) == IF val <= 1 THEN 0 ELSE 1 + log2(val \div 2)

binaryPow(baseLog2, exp) == 2 ^ (exp * baseLog2)

pointsAtDepth(dimensions, depth) == binaryPow(dimensions, depth)

calcLevelIndex(dimensions, depth) ==
    (binaryPow(dimensions, depth) - 1) \div ((2 ^ dimensions) - 1)

calcDepth(factor, index) == log2(index * (factor - 1) + 1) \div log2(factor)

logN(val, n) == log2(val) \div log2(n)

isPerfectLogN_NoDivision(val, n) == (2 ^ log2(val)) = val

isPerfectLogN(val, n) == (2 ^ (logN(val, n) * log2(n))) = val

(***************************************************************************)
(* Structure: predicates declared in structure.hpp.                        *)
(***************************************************************************)
\* A cold region exists when the half-open depth range
\* [coldDepthBegin, coldDepthEnd) is not empty.
hasCold(s) == s.coldDepthEnd > s.coldDepthBegin

\* The sparse region has a begin depth and no end: it is active when its
\* begin depth is set.
hasSparse(s) == s.sparseDepthBegin # 0

(***************************************************************************)
(* Structure::Structure.                                                   *)
(***************************************************************************)
\* The member initialisers.  nz is the value log2(0) yields when
\* pointsPerChunk = 0 (undefined behaviour); it is not read otherwise.
MemberInit(p, nz) ==
    LET nullDepthEnd     == p.nullDepth
        baseDepthBegin   == nullDepthEnd
        baseDepthEnd     == Max(baseDepthBegin, p.baseDepth)
        coldDepthBegin   == baseDepthEnd
        coldDepthEnd     == IF p.coldDepth # 0
                            THEN Max(coldDepthBegin, p.coldDepth) ELSE 0
        sparseDepthBegin == Max(p.sparseDepth, coldDepthBegin)
        factor           == 2 ^ p.dimensions
    IN  [ nullDepthBegin    |-> 0,
          nullDepthEnd      |-> nullDepthEnd,
          baseDepthBegin    |-> baseDepthBegin,
          baseDepthEnd      |-> baseDepthEnd,
          coldDepthBegin    |-> coldDepthBegin,
          coldDepthEnd      |-> coldDepthEnd,
          sparseDepthBegin  |-> sparseDepthBegin,
          startDepth        |-> p.startDepth,
          nullIndexBegin    |-> 0,
          nullIndexEnd      |-> calcLevelIndex(p.dimensions, nullDepthEnd),
          baseIndexBegin    |-> calcLevelIndex(p.dimensions, nullDepthEnd),
          baseIndexEnd      |-> calcLevelIndex(p.dimensions, baseDepthEnd),
          coldIndexBegin    |-> calcLevelIndex(p.dimensions, baseDepthEnd),
          coldIndexEnd      |-> IF coldDepthEnd # 0
                                THEN calcLevelIndex(p.dimensions, coldDepthEnd)
                                ELSE 0,
          sparseIndexBegin  |-> calcLevelIndex(p.dimensions, sparseDepthBegin),
          tubular           |-> p.tubular,
          dynamicChunks     |-> p.dynamicChunks,
          prefixIds         |-> p.prefixIds,
          dimensions        |-> p.dimensions,
          factor            |-> factor,
          numPointsHint     |-> p.numPointsHint,
          pointsPerChunk    |-> p.pointsPerChunk,
          nominalChunkDepth |-> IF p.pointsPerChunk = 0 THEN nz
                                ELSE logN(p.pointsPerChunk, factor) ]

\* The three throws of the constructor body.
ConfigurationError(s) ==
    \/ s.baseDepthEnd < 4
    \/ s.pointsPerChunk = 0 /\ hasCold(s)
    \/ hasCold(s) /\ ~isPerfectLogN(s.pointsPerChunk, s.factor)

RECURSIVE CeilLogFrom(_, _, _)
\* std::ceil(std::log2(hint) / std::log2(factor)): the least k with
\* factor^k >= hint (the quotient of the doubles is an integer only when hint
\* is a power of factor, and std::log2 is exact on powers of two).
CeilLogFrom(k, hint, dimensions) ==
    IF binaryPow(dimensions, k) >= hint THEN k
    ELSE CeilLogFrom(k + 1, hint, dimensions)

CeilLog(hint, dimensions) == CeilLogFrom(0, hint, dimensions)

\* std::ceil(static_cast<float>(depth) * sparseDepthBumpRatio) with the ratio
\* 1.15 = 23/20 (the float product rounds to the integer at multiples of 20).
BumpSparseDepth(depth) == (depth * 23 + 19) \div 20

HintAdjust_NoIndexUpdate(s, sparseDepth) ==
    IF s.numPointsHint # 0
    THEN LET derived == BumpSparseDepth(
                            Max(CeilLog(s.numPointsHint, s.dimensions),
                                s.coldDepthBegin))
             sdb == IF sparseDepth = 0 THEN derived ELSE s.sparseDepthBegin
         IN  [s EXCEPT !.sparseDepthBegin = sdb]
    ELSE s

\* if (m_numPointsHint) { ... }
HintAdjust(s, sparseDepth) ==
    IF s.numPointsHint # 0
    THEN LET derived == BumpSparseDepth(
                            Max(CeilLog(s.numPointsHint, s.dimensions),
                                s.coldDepthBegin))
             sdb == IF sparseDepth = 0 THEN derived ELSE s.sparseDepthBegin
         IN  [s EXCEPT !.sparseDepthBegin = sdb,
                       !.sparseIndexBegin = calcLevelIndex(s.dimensions, sdb)]
    ELSE s

NoParams ==
    [ nullDepth |-> 0, baseDepth |-> 0, coldDepth |-> 0, pointsPerChunk |-> 0,
      dimensions |-> 2, numPointsHint |-> 0, tubular |-> FALSE,
      dynamicChunks |-> FALSE, prefixIds |-> FALSE, sparseDepth |-> 0,
      startDepth |-> 0 ]

\* The value that stands for "no Structure".
NoStructure == MemberInit(NoParams, 0)

\* The outcome of a constructor call: a Structure, or none when it throws.
Structure(p, nz) ==
    LET s == MemberInit(p, nz)
    IN  IF ConfigurationError(s)
        THEN [state |-> "failed", structure |-> NoStructure]
        ELSE [state |-> "built", structure |-> HintAdjust(s, p.sparseDepth)]

(***************************************************************************)
(* ChunkInfo::ChunkInfo.                                                   *)
(***************************************************************************)
NoInfo ==
    [ fault |-> "none", index |-> 0, chunkId |-> 0, depth |-> 0,
      chunkOffset |-> 0, pointsPerChunk |-> 0, chunkNum |-> 0 ]

Faulted(index, depth, fault) ==
    [NoInfo EXCEPT !.fault = fault, !.index = index, !.depth = depth]

\* The fixed-size branch: chunks of basePointsPerChunk counted from
\* coldIndexBegin.
ChunkInfoFixed(s, index, depth) ==
    LET pointsPerChunk == s.pointsPerChunk
    IN  IF index < s.coldIndexBegin THEN Faulted(index, depth, "underflow")
        ELSE IF pointsPerChunk = 0 THEN Faulted(index, depth, "divzero")
        ELSE LET chunkNum    == (index - s.coldIndexBegin) \div pointsPerChunk
                 chunkOffset == (index - s.coldIndexBegin) % pointsPerChunk
             IN  [ fault          |-> "none",
                   index          |-> index,
                   chunkId        |-> s.coldIndexBegin + chunkNum * pointsPerChunk,
                   depth          |-> depth,
                   chunkOffset    |-> chunkOffset,
                   pointsPerChunk |-> pointsPerChunk,
                   chunkNum       |-> chunkNum ]

ChunkInfoDynamic_BaseSizedChunks(s, index, depth) ==
    LET levelIndex == calcLevelIndex(s.dimensions, depth)
        basePointsPerChunk == s.pointsPerChunk
    IN  IF basePointsPerChunk = 0 THEN Faulted(index, depth, "divzero")
        ELSE
        LET sparseFirstSpan      == pointsAtDepth(s.dimensions, s.sparseDepthBegin)
            chunksPerSparseDepth == sparseFirstSpan \div basePointsPerChunk
            sparseDepthCount     == depth - s.sparseDepthBegin
            pointsPerChunk       == basePointsPerChunk *
                                    binaryPow(s.dimensions, sparseDepthCount)
            coldIndexSpan        == s.sparseIndexBegin - s.coldIndexBegin
            numColdChunks        == coldIndexSpan \div basePointsPerChunk
            prevLevelsChunkCount == numColdChunks +
                                    chunksPerSparseDepth * sparseDepthCount
            levelOffset          == index - levelIndex
            quot                 == levelOffset \div pointsPerChunk
        IN  [ fault          |-> "none",
              index          |-> index,
              chunkId        |-> levelIndex + quot * basePointsPerChunk,
              depth          |-> depth,
              chunkOffset    |-> levelOffset % pointsPerChunk,
              pointsPerChunk |-> pointsPerChunk,
              chunkNum       |-> prevLevelsChunkCount + quot ]

ChunkInfoDynamic_NoColdChunks(s, index, depth) ==
    LET levelIndex == calcLevelIndex(s.dimensions, depth)
        basePointsPerChunk == s.pointsPerChunk
    IN  IF basePointsPerChunk = 0 THEN Faulted(index, depth, "divzero")
        ELSE
        LET sparseFirstSpan      == pointsAtDepth(s.dimensions, s.sparseDepthBegin)
            chunksPerSparseDepth == sparseFirstSpan \div basePointsPerChunk
            sparseDepthCount     == depth - s.sparseDepthBegin
            pointsPerChunk       == basePointsPerChunk *
                                    binaryPow(s.dimensions, sparseDepthCount)
            coldIndexSpan        == s.sparseIndexBegin - s.coldIndexBegin
            numColdChunks        == coldIndexSpan \div basePointsPerChunk
            prevLevelsChunkCount == chunksPerSparseDepth * sparseDepthCount
            levelOffset          == index - levelIndex
            quot                 == levelOffset \div pointsPerChunk
        IN  [ fault          |-> "none",
              index          |-> index,
              chunkId        |-> levelIndex + quot * pointsPerChunk,
              depth          |-> depth,
              chunkOffset    |-> levelOffset % pointsPerChunk,
              pointsPerChunk |-> pointsPerChunk,
              chunkNum       |-> prevLevelsChunkCount + quot ]

\* The dynamic branch: above sparseDepthBegin the capacity of a chunk grows
\* by factor at every depth and every depth holds the same number of chunks.
ChunkInfoDynamic(s, index, depth) ==
    LET levelIndex == calcLevelIndex(s.dimensions, depth)
        basePointsPerChunk == s.pointsPerChunk
    IN  IF basePointsPerChunk = 0 THEN Faulted(index, depth, "divzero")
        ELSE
        LET sparseFirstSpan      == pointsAtDepth(s.dimensions, s.sparseDepthBegin)
            chunksPerSparseDepth == sparseFirstSpan \div basePointsPerChunk
            sparseDepthCount     == depth - s.sparseDepthBegin
            pointsPerChunk       == basePointsPerChunk *
                                    binaryPow(s.dimensions, sparseDepthCount)
            coldIndexSpan        == s.sparseIndexBegin - s.coldIndexBegin
            numColdChunks        == coldIndexSpan \div basePointsPerChunk
            prevLevelsChunkCount == numColdChunks +
                                    chunksPerSparseDepth * sparseDepthCount
            levelOffset          == index - levelIndex
            quot                 == levelOffset \div pointsPerChunk
        IN  [ fault          |-> "none",
              index          |-> index,
              chunkId        |-> levelIndex + quot * pointsPerChunk,
              depth          |-> depth,
              chunkOffset    |-> levelOffset % pointsPerChunk,
              pointsPerChunk |-> pointsPerChunk,
              chunkNum       |-> prevLevelsChunkCount + quot ]

ChunkInfo(s, index) ==
    LET depth      == calcDepth(s.factor, index)
        levelIndex == calcLevelIndex(s.dimensions, depth)
    IN  IF ~s.dynamicChunks \/ levelIndex <= s.sparseIndexBegin
        THEN ChunkInfoFixed(s, index, depth)
        ELSE ChunkInfoDynamic(s, index, depth)

(***************************************************************************)
(* Structure::numChunksAtDepth and Structure::getInfoFromNum.              *)
(***************************************************************************)
NoCount == [fault |-> "none", num |-> 0]

numChunksAtDepth(s, depth) ==
    IF s.pointsPerChunk = 0 THEN [fault |-> "divzero", num |-> 0]
    ELSE IF ~hasSparse(s) \/ ~s.dynamicChunks \/ depth <= s.sparseDepthBegin
    THEN LET depthSpan == calcLevelIndex(s.dimensions, depth + 1) -
                          calcLevelIndex(s.dimensions, depth)
         IN  [fault |-> "none", num |-> depthSpan \div s.pointsPerChunk]
    ELSE LET sparseFirstSpan == pointsAtDepth(s.dimensions, s.sparseDepthBegin)
         IN  [fault |-> "none", num |-> sparseFirstSpan \div s.pointsPerChunk]

\* The chunkId of a chunk number: [fault, chunkId].
ChunkIdFixed_OffByOne(s, chunkNum) ==
    [fault |-> "none", chunkId |-> s.coldIndexBegin + (chunkNum + 1) * s.pointsPerChunk]

\* chunkId = m_coldIndexBegin + chunkNum * m_pointsPerChunk
ChunkIdFixed(s, chunkNum) ==
    [fault |-> "none", chunkId |-> s.coldIndexBegin + chunkNum * s.pointsPerChunk]

\* The branch of getInfoFromNum for a sparse region with dynamic chunks.
ChunkIdDynamic(s, chunkNum) ==
    LET endFixed  == calcLevelIndex(s.dimensions, s.sparseDepthBegin + 1)
        fixedSpan == endFixed - s.coldIndexBegin
    IN  IF s.pointsPerChunk = 0 THEN [fault |-> "divzero", chunkId |-> 0]
        ELSE
        LET fixedNum == fixedSpan \div s.pointsPerChunk
        IN  IF chunkNum < fixedNum THEN ChunkIdFixed(s, chunkNum)
            ELSE
            LET leftover == chunkNum - fixedNum
                chunksPerSparseDepth ==
                    numChunksAtDepth(s, s.sparseDepthBegin).num
            IN  IF chunksPerSparseDepth = 0
                THEN [fault |-> "divzero", chunkId |-> 0]
                ELSE
                LET depth == s.sparseDepthBegin + 1 +
                             (leftover \div chunksPerSparseDepth)
                    chunkNumInDepth == leftover % chunksPerSparseDepth
                    depthIndexBegin == calcLevelIndex(s.dimensions, depth)
                    depthChunkSize  == pointsAtDepth(s.dimensions, depth) \div
                                       chunksPerSparseDepth
                IN  [ fault   |-> "none",
                      chunkId |-> depthIndexBegin +
                                  chunkNumInDepth * depthChunkSize ]

getInfoFromNum(s, chunkNum) ==
    LET id == IF hasCold(s)
              THEN IF hasSparse(s) /\ s.dynamicChunks
                   THEN ChunkIdDynamic(s, chunkNum)
                   ELSE ChunkIdFixed(s, chunkNum)
              ELSE [fault |-> "none", chunkId |-> 0]
    IN  IF id.fault # "none" THEN Faulted(0, 0, id.fault)
        ELSE ChunkInfo(s, id.chunkId)

(***************************************************************************)
(* Structure::toJson and Structure::Structure(const Json::Value&).         *)
(***************************************************************************)
\* The empty document.
NoJson == [k \in {} |-> 0]

toJson_NoSparseDepth(s) ==
    LET doc == [ nullDepth      |-> s.nullDepthEnd,
                 baseDepth      |-> s.baseDepthEnd,
                 coldDepth      |-> s.coldDepthEnd,
                 pointsPerChunk |-> s.pointsPerChunk,
                 dimensions     |-> s.dimensions,
                 numPointsHint  |-> s.numPointsHint,
                 tubular        |-> s.tubular,
                 dynamicChunks  |-> s.dynamicChunks,
                 prefixIds      |-> s.prefixIds ]
    IN  IF s.startDepth # 0
        THEN [k \in DOMAIN doc \cup {"startDepth"} |->
                 IF k = "startDepth" THEN s.startDepth ELSE doc[k]]
        ELSE doc

toJson(s) ==
    LET doc == [ nullDepth      |-> s.nullDepthEnd,
                 baseDepth      |-> s.baseDepthEnd,
                 coldDepth      |-> s.coldDepthEnd,
                 sparseDepth    |-> s.sparseDepthBegin,
                 pointsPerChunk |-> s.pointsPerChunk,
                 dimensions     |-> s.dimensions,
                 numPointsHint  |-> s.numPointsHint,
                 tubular        |-> s.tubular,
                 dynamicChunks  |-> s.dynamicChunks,
                 prefixIds      |-> s.prefixIds ]
    IN  IF s.startDepth # 0
        THEN [k \in DOMAIN doc \cup {"startDepth"} |->
                 IF k = "startDepth" THEN s.startDepth ELSE doc[k]]
        ELSE doc

\* json[key].asUInt64(), .asBool(), .asString(): a missing member reads as
\* 0, false and "".
asUInt64(doc, key) == IF key \in DOMAIN doc THEN doc[key] ELSE 0
asBool(doc, key) == IF key \in DOMAIN doc THEN doc[key] ELSE FALSE
asString(doc, key) == IF key \in DOMAIN doc THEN doc[key] ELSE ""

\* The arguments the delegating constructor reads from a document.
ParamsFromJson(doc) ==
    [ nullDepth      |-> asUInt64(doc, "nullDepth"),
      baseDepth      |-> asUInt64(doc, "baseDepth"),
      coldDepth      |-> asUInt64(doc, "coldDepth"),
      pointsPerChunk |-> asUInt64(doc, "pointsPerChunk"),
      dimensions     |-> IF "dimensions" \in DOMAIN doc
                         THEN asUInt64(doc, "dimensions")
                         ELSE IF asString(doc, "type") = "octree" THEN 3 ELSE 2,
      numPointsHint  |-> asUInt64(doc, "numPointsHint"),
      tubular        |-> IF "tubular" \in DOMAIN doc
                         THEN asBool(doc, "tubular")
                         ELSE asString(doc, "type") = "hybrid",
      dynamicChunks  |-> asBool(doc, "dynamicChunks"),
      prefixIds      |-> asBool(doc, "prefixIds"),
      sparseDepth    |-> asUInt64(doc, "sparseDepth"),
      startDepth     |-> asUInt64(doc, "startDepth") ]

(***************************************************************************)
(* Inputs.                                                                 *)
(***************************************************************************)
Dimensions      == {2, 3}
NullDepths      == {0, 5}
BaseDepths      == {3, 4}
ColdDepths      == {0, 4, 6}
PointsPerChunks == {0, 1, 4, 8, 64, 1024}
Hints           == {0, 1000}
SparseDepths    == {0, 5}
StartDepths     == {0, 2}

AllParams ==
    [ nullDepth      : NullDepths,
      baseDepth      : BaseDepths,
      coldDepth      : ColdDepths,
      pointsPerChunk : PointsPerChunks,
      dimensions     : Dimensions,
      numPointsHint  : Hints,
      tubular        : BOOLEAN,
      dynamicChunks  : BOOLEAN,
      prefixIds      : BOOLEAN,
      sparseDepth    : SparseDepths,
      startDepth     : StartDepths ]

\* The geometry varies with the naming flags at their defaults, and the
\* naming flags vary on one geometry.
Params ==
    { p \in AllParams :
        \/ ~p.tubular /\ ~p.prefixIds /\ p.startDepth = 0
        \/ /\ p.nullDepth = 0 /\ p.baseDepth = 4 /\ p.coldDepth = 6
           /\ p.pointsPerChunk = 64 /\ p.dynamicChunks }

Window(b) == { i \in (b - Back)..(b + Span) : i >= 0 }

\* The indices queried on a Structure.
Indices(s) ==
    (0..MaxLow)
        \cup Window(s.coldIndexBegin)
        \cup Window(calcLevelIndex(s.dimensions, s.sparseDepthBegin))
        \cup Window(calcLevelIndex(s.dimensions, s.sparseDepthBegin + 1))
        \cup Window(calcLevelIndex(s.dimensions, s.sparseDepthBegin + 2))

(***************************************************************************)
(* The state machine.                                                      *)
(***************************************************************************)
NoRestored == [state |-> "unbuilt", structure |-> NoStructure]

Init ==
    /\ state = "unbuilt"
    /\ params = NoParams
    /\ structure = NoStructure
    /\ op = "none"
    /\ arg = 0
    /\ from = -1
    /\ info = NoInfo
    /\ count = NoCount
    /\ json = NoJson
    /\ restored = NoRestored

\* Structure::Structure(nullDepth, ..., startDepth)
Construct(p, nz) ==
    /\ state = "unbuilt"
    /\ p.pointsPerChunk # 0 => nz = 0
    /\ LET made == Structure(p, nz)
       IN  /\ state' = made.state
           /\ structure' = made.structure
    /\ params' = p
    /\ op' = "Structure"
    /\ UNCHANGED <<arg, from, info, count, json, restored>>

\* The queries are pure functions of the Structure and their argument: a
\* behaviour makes one query on the Structure it built (and may pass the
\* result on: a chunk number to getInfoFromNum, a document to Structure).

\* ChunkInfo(structure, index)
ChunkInfoQuery(index) ==
    /\ state = "built" /\ op = "Structure"
    /\ op' = "ChunkInfo"
    /\ arg' = index
    /\ from' = -1
    /\ info' = ChunkInfo(structure, index)
    /\ count' = NoCount
    /\ json' = NoJson
    /\ restored' = NoRestored
    /\ UNCHANGED <<state, params, structure>>

\* structure.getInfoFromNum(chunkNum): with a chunk number of the caller's,
\* or with the chunk number the last ChunkInfo gave.
GetInfoFromNum(chunkNum, source) ==
    /\ state = "built"
    /\ \/ op = "Structure" /\ source = -1 /\ chunkNum \in 0..MaxChunkNum
       \/ /\ op = "ChunkInfo" /\ info.fault = "none"
          /\ source = arg /\ chunkNum = info.chunkNum
    /\ op' = "getInfoFromNum"
    /\ arg' = chunkNum
    /\ from' = source
    /\ info' = getInfoFromNum(structure, chunkNum)
    /\ count' = NoCount
    /\ json' = NoJson
    /\ restored' = NoRestored
    /\ UNCHANGED <<state, params, structure>>

\* structure.numChunksAtDepth(depth)
NumChunksAtDepth(depth) ==
    /\ state = "built" /\ op = "Structure"
    /\ op' = "numChunksAtDepth"
    /\ arg' = depth
    /\ from' = -1
    /\ info' = NoInfo
    /\ count' = numChunksAtDepth(structure, depth)
    /\ json' = NoJson
    /\ restored' = NoRestored
    /\ UNCHANGED <<state, params, structure>>

\* structure.toJson()
ToJson ==
    /\ state = "built" /\ op = "Structure"
    /\ op' = "toJson"
    /\ arg' = 0
    /\ from' = -1
    /\ info' = NoInfo
    /\ count' = NoCount
    /\ json' = toJson(structure)
    /\ restored' = NoRestored
    /\ UNCHANGED <<state, params, structure>>

\* Structure(json) on the document toJson returned.
FromJson(nz) ==
    /\ state = "built"
    /\ op = "toJson"
    /\ LET p == ParamsFromJson(json)
       IN  /\ p.pointsPerChunk # 0 => nz = 0
           /\ restored' = Structure(p, nz)
    /\ op' = "fromJson"
    /\ UNCHANGED <<state, params, structure, arg, from, info, count, json>>

Next ==
    \/ /\ state = "unbuilt"
       /\ \E p \in Params, nz \in 0..LogZeroMax : Construct(p, nz)
    \/ /\ state = "built" /\ op = "Structure"
       /\ \E index \in Indices(structure) : ChunkInfoQuery(index)
    \/ /\ state = "built" /\ op = "Structure"
       /\ \E chunkNum \in 0..MaxChunkNum : GetInfoFromNum(chunkNum, -1)
    \/ GetInfoFromNum(info.chunkNum, arg)
    \/ /\ state = "built" /\ op = "Structure"
       /\ \E depth \in 0..MaxDepth : NumChunksAtDepth(depth)
    \/ ToJson
    \/ /\ op = "toJson"
       /\ \E nz \in 0..LogZeroMax : FromJson(nz)

Spec == Init /\ [][Next]_vars

(***************************************************************************)
(* Properties.                                                             *)
(***************************************************************************)
Queried == state = "built" /\ op = "ChunkInfo"

InCold == arg >= structure.coldIndexBegin

ChunkHoldsIndex ==
    /\ info.fault = "none"
    /\ 0 <= info.chunkOffset
    /\ info.chunkOffset < info.pointsPerChunk
    /\ info.chunkId + info.chunkOffset = arg

C2_GapFree ==
    (Queried /\ hasCold(structure) /\ InCold) =>
        LET first == ChunkInfo(structure, structure.coldIndexBegin)
            next  == ChunkInfo(structure, arg + 1)
        IN  /\ first.fault = "none" /\ first.chunkNum = 0 /\ first.chunkOffset = 0
            /\ info.fault = "none" /\ next.fault = "none"
            /\ next.chunkId # info.chunkId => next.chunkNum = info.chunkNum + 1
            /\ next.chunkId = info.chunkId => next.chunkNum = info.chunkNum

\* getInfoFromNum was given the chunk number of ChunkInfo(structure, c) for
\* a chunkId c (an index that is the first of its chunk).
RoundTripOfChunkId ==
    /\ state = "built" /\ op = "getInfoFromNum" /\ from >= 0
    /\ ChunkInfo(structure, from).chunkId = from

C4_InverseDynamic ==
    ( /\ state = "built" /\ op = "getInfoFromNum"
      /\ from >= structure.coldIndexBegin
      /\ hasCold(structure) /\ hasSparse(structure)
      /\ structure.dynamicChunks ) =>
        LET forward ==
                ChunkInfo(structure, ChunkInfo(structure, from).chunkId)
        IN  /\ info.fault = "none" /\ forward.fault = "none"
            /\ info.chunkId = forward.chunkId
            /\ info.chunkNum = forward.chunkNum
            /\ info.depth = forward.depth
            /\ info.pointsPerChunk = forward.pointsPerChunk

IsPowerOf(n, val) == \E k \in 0..MaxPow : n ^ k = val

C7_NoRuntimeFailure ==
    state = "built" => (info.fault = "none" /\ count.fault = "none")

\* C8: on a Structure with a cold region, numChunksAtDepth(d) for
\* d >= coldDepthBegin is the number of distinct chunkIds of the indices of
\* depth d.
C8_CountsChunks ==
    ( /\ state = "built" /\ op = "numChunksAtDepth"
      /\ hasCold(structure) /\ arg >= structure.coldDepthBegin
      /\ pointsAtDepth(structure.dimensions, arg) <= MaxLevelPoints ) =>
        LET level == calcLevelIndex(structure.dimensions, arg)..
                     (calcLevelIndex(structure.dimensions, arg + 1) - 1)
        IN  /\ count.fault = "none"
            /\ count.num =
                 Cardinality({ ChunkInfo(structure, i).chunkId : i \in level })

EquivalentMembers ==
    { "nullDepthBegin", "nullDepthEnd", "baseDepthBegin", "baseDepthEnd",
      "coldDepthBegin", "coldDepthEnd", "sparseDepthBegin", "startDepth",
      "nullIndexBegin", "nullIndexEnd", "baseIndexBegin", "baseIndexEnd",
      "coldIndexBegin", "coldIndexEnd", "sparseIndexBegin", "tubular",
      "dynamicChunks", "prefixIds", "dimensions", "factor", "numPointsHint",
      "pointsPerChunk" }

\* C9: Structure(S.toJson()) is constructed and has the depth and index
\* boundaries, dimensions, pointsPerChunk, dynamicChunks, tubular, prefixIds,
\* numPointsHint and startDepth of S.
C9_JsonRoundTrip ==
    op = "fromJson" =>
        /\ restored.state = "built"
        /\ \A m \in EquivalentMembers : restored.structure[m] = structure[m]

\* The round trip of a Structure whose sparseDepthBegin was derived from the
\* hint and bumped, with a start depth.
C9_Witness ==
    /\ op = "fromJson"
    /\ params.numPointsHint # 0 /\ params.sparseDepth = 0
    /\ structure.sparseDepthBegin > structure.coldDepthBegin
    /\ params.startDepth # 0 /\ params.tubular

BoundariesBut(coldOrdered) ==
    LET s == structure
        d == s.dimensions
    IN  /\ s.nullDepthBegin <= s.nullDepthEnd
        /\ s.nullDepthEnd = s.baseDepthBegin
        /\ s.baseDepthBegin <= s.baseDepthEnd
        /\ s.baseDepthEnd = s.coldDepthBegin
        /\ s.coldDepthBegin <= s.sparseDepthBegin
        /\ s.nullIndexBegin <= s.nullIndexEnd
        /\ s.nullIndexEnd = s.baseIndexBegin
        /\ s.baseIndexBegin <= s.baseIndexEnd
        /\ s.baseIndexEnd = s.coldIndexBegin
        /\ s.coldIndexBegin <= s.sparseIndexBegin
        /\ coldOrdered =>
              (s.coldDepthBegin <= s.coldDepthEnd /\ s.coldIndexBegin <= s.coldIndexEnd)
        /\ ~coldOrdered => (s.coldDepthEnd = 0 /\ s.coldIndexEnd = 0)
        /\ s.nullIndexBegin = calcLevelIndex(d, s.nullDepthBegin)
        /\ s.nullIndexEnd = calcLevelIndex(d, s.nullDepthEnd)
        /\ s.baseIndexBegin = calcLevelIndex(d, s.baseDepthBegin)
        /\ s.baseIndexEnd = calcLevelIndex(d, s.baseDepthEnd)
        /\ s.coldIndexBegin = calcLevelIndex(d, s.coldDepthBegin)
        /\ s.coldIndexEnd = calcLevelIndex(d, s.coldDepthEnd)
        /\ s.sparseIndexBegin = calcLevelIndex(d, s.sparseDepthBegin)

\* C10 as stated: after every construction the boundaries are ordered,
\* null <= base <= cold and coldBegin <= sparseBegin, coldBegin <= coldEnd
\* included, in depth and in index, and every index boundary is the level
\* index of its depth boundary.
C10_Ordered == state = "built" => BoundariesBut(TRUE)

\* C10 amended: the same, but coldDepthBegin <= coldDepthEnd and
\* coldIndexBegin <= coldIndexEnd hold when coldDepth is not 0; when
\* coldDepth is 0, coldDepthEnd and coldIndexEnd are 0.
C10_OrderedButUnboundedCold ==
    state = "built" => BoundariesBut(params.coldDepth # 0)

\* A Structure without a cold end whose sparseDepthBegin comes from the hint.
C10_Witness ==
    /\ state = "built"
    /\ params.coldDepth = 0
    /\ params.numPointsHint # 0 /\ params.sparseDepth = 0
    /\ structure.sparseDepthBegin > structure.coldDepthBegin

====
